---- MODULE Spec2Model ----
(***************************************************************************)
(* Model of ts-common: the Result container (src/utils/result.ts), the     *)
(* response adapter requestFactory (src/utils/requestFactory.ts) and the   *)
(* single-fire hook useRequestFactory (src/unnamed/part_000).              *)
(*                                                                         *)
(* JavaScript values are records [kind, cls, v]: kind is the runtime type, *)
(* cls the class of an Error instance, v the payload (a string's text, a   *)
(* number's digits, an object's identity, an Error's message).             *)
(***************************************************************************)
EXTENDS Integers, Sequences, FiniteSets, TLC

\* ------------------------------------------------------------------ bounds
\* Number of distinct payload objects ({id: 1}, {id: 2}, ...).
MaxObj == 2
\* Number of activations of the hook's effect within one subscription.
MaxActivations == 3

\* ------------------------------------------------------------ JS values
Null == [kind |-> "null", cls |-> "", v |-> ""]
Undefined == [kind |-> "undefined", cls |-> "", v |-> ""]
Str(s) == [kind |-> "string", cls |-> "", v |-> s]
Num(s) == [kind |-> "number", cls |-> "", v |-> s]
Obj(i) == [kind |-> "object", cls |-> "", v |-> ToString(i)]
Err(c, m) == [kind |-> "error", cls |-> c, v |-> m]

Strings == {Str("missing"), Str("pay"), Str("boom")}
Numbers == {Num("42")}
Objects == {Obj(i) : i \in 1..MaxObj}

\* What JSON decoding can put in a field; a field the body lacks reads as
\* undefined when destructured.
JsonValues == {Null} \cup Strings \cup Numbers \cup Objects
FieldValues == JsonValues \cup {Undefined}

\* What a transport, response.json() or a callback can throw or reject with.
Faults ==
    { Null, Undefined, Str("boom"),
      Err("Error", "net"), Err("TypeError", "Failed to fetch"),
      Err("SyntaxError", "Unexpected token"),
      Err("NotFoundError", "upstream"), Err("PaymentRequiredError", "upstream") }

Values == FieldValues \cup Faults

\* ECMAScript ToString, as applied by the Error constructor to its message.
JsToString(x) ==
    CASE x.kind = "string" -> x.v
      [] x.kind = "number" -> x.v
      [] x.kind = "null" -> "null"
      [] x.kind = "undefined" -> "undefined"
      [] x.kind = "object" -> "[object Object]"
      [] OTHER -> x.cls \o ": " \o x.v

\* new Cls(message): the message is left empty when the argument is undefined.
NewError(c, m) == Err(c, IF m = Undefined THEN "" ELSE JsToString(m))

\* error instanceof Cls, for the two subclasses of Error the adapter declares.
InstanceOf(x, c) == x.kind = "error" /\ x.cls = c

\* JSON.stringify of a decoded field.
JsonStringify(x) ==
    CASE x.kind = "string" -> Str("\"" \o x.v \o "\"")
      [] x.kind = "number" -> Str(x.v)
      [] x.kind = "null" -> Str("null")
      [] x.kind = "object" -> Str("{\"id\":" \o x.v \o "}")
      [] OTHER -> Undefined

\* ---------------------------------------------------------------- Result
\* private constructor(data, error)
Result(d, e) == [_data |-> d, _error |-> e, _pending |-> FALSE]

succeed(d) == Result(d, Null)

failed(e) == Result(Null, e)

\* Result.pending(): called by useRequestFactory, not defined in result.ts.
pending == [_data |-> Null, _error |-> Null, _pending |-> TRUE]

data(r) == r._data

error(r) == r._error

isSuccess(r) == r._error = Null

isError(r) == r._error # Null

\* isPending: read by the three-way match, not defined in result.ts.
isPending(r) == r._pending

\* A call of a branch of match, and what the branch returns: handlers are
\* modelled as injective in the branch and its argument.
Call(b, a) == [branch |-> b, arg |-> a]

\* Variant of match2 that tests isError where the code tests isSuccess.
match2Inverted(r) ==
    IF isError(r) THEN <<Call("onSuccess", r._data)>>
    ELSE <<Call("onError", r._error)>>

\* match(onSuccess, onError) of result.ts.
match2(r) ==
    IF isSuccess(r) THEN <<Call("onSuccess", r._data)>>
    ELSE <<Call("onError", r._error)>>

\* The pending branch of match(onSuccess, onError, onPending?).
matchPending(hasOnPending) ==
    IF hasOnPending THEN <<Call("onPending", Undefined)>>
    ELSE <<Call("onError", Null)>>

\* match as the hook calls it: the sequence of branch calls it makes.
match(r, hasOnPending) ==
    IF isPending(r) THEN matchPending(hasOnPending) ELSE match2(r)

\* unwrap() of result.ts: the pair {data, error}.
unwrap2(r) ==
    IF r._data # Null
    THEN [data |-> r._data, error |-> Null]
    ELSE [data |-> Null, error |-> r._error]

\* unwrap() as the triple {data, error, isPending}: the isPending member is
\* not in result.ts.
unwrap(r) ==
    [data |-> unwrap2(r).data, error |-> unwrap2(r).error,
     isPending |-> isPending(r)]

\* A function handed to runCatching: it returns val or throws val.
Fn(t, val) == [throws |-> t, val |-> val]

runCatching(fn) ==
    IF fn.throws THEN failed(fn.val) ELSE succeed(fn.val)

\* --------------------------------------------------------- requestFactory
NOT_FOUND == 404
PAYMENT_REQUIRED == 402

NotOkayText == "Response's not okay"

Statuses == {200, 204, 402, 403, 404, 500}

\* The raw response: its success flag and status code.
Responses == [ok : BOOLEAN, status : Statuses]
NoResponse == [ok |-> FALSE, status |-> 0]

\* What response.json() resolves with: null, or a mapping whose message and
\* data fields are present or missing.
NullBody == [nul |-> TRUE, message |-> Undefined, data |-> Undefined]
Bodies ==
    {NullBody} \cup [nul : {FALSE}, message : FieldValues, data : FieldValues]

\* Completion of a block: a returned Result or a thrown value, with the lines
\* it wrote to console.error.
Return(r, l) == [t |-> "return", v |-> r, log |-> l]
Throw(x, l) == [t |-> "throw", v |-> x, log |-> l]

\* Destructuring null throws a TypeError.
DestructureError == Err("TypeError", "Cannot destructure")

\* Variant of statusError with the two status tests exchanged.
statusErrorSwapped(status, m) ==
    IF status = PAYMENT_REQUIRED THEN Throw(NewError("NotFoundError", m), <<>>)
    ELSE IF status = NOT_FOUND
    THEN Throw(NewError("PaymentRequiredError", m), <<>>)
    ELSE Throw(Err("Error", NotOkayText),
               <<[tag |-> "Response's not okay: ", v |-> JsonStringify(m)]>>)

\* The status classification of a response that is not ok.
statusError(status, m) ==
    IF status = NOT_FOUND THEN Throw(NewError("NotFoundError", m), <<>>)
    ELSE IF status = PAYMENT_REQUIRED
    THEN Throw(NewError("PaymentRequiredError", m), <<>>)
    ELSE Throw(Err("Error", NotOkayText),
               <<[tag |-> "Response's not okay: ", v |-> JsonStringify(m)]>>)

\* Variant of decodeData that reads the message field.
decodeMessage(b) == b.message

\* const { data } = await response.json()
decodeData(b) == b.data

\* The try block from the point where response.json() has resolved with b.
afterJson(resp, b) ==
    IF ~resp.ok
    THEN IF b.nul THEN Throw(DestructureError, <<>>)
         ELSE statusError(resp.status, b.message)
    ELSE IF b.nul THEN Throw(DestructureError, <<>>)
         ELSE Return(succeed(decodeData(b)), <<>>)

\* The catch block: every caught value becomes a failed Result; only the
\* two classified errors are not logged.
catchBlock(x, l) ==
    IF InstanceOf(x, "NotFoundError") THEN Return(failed(x), l)
    ELSE IF InstanceOf(x, "PaymentRequiredError") THEN Return(failed(x), l)
    ELSE Return(failed(x), l \o <<[tag |-> "Request failed: ", v |-> x]>>)

\* try { ... } catch: a completion of the try block run through the catch.
tryCatch(c) == IF c.t = "throw" THEN catchBlock(c.v, c.log) ELSE c

\* ------------------------------------------------------------- variables
VARIABLES
    \* useRequestFactory (one subscription)
    args,          \* the hook's args parameter
    result,        \* the useState slot
    returned,      \* what the last render of the hook returned
    slotHist,      \* every value the slot has held, oldest first
    hasExecuted,   \* hasExecuted.current
    activations,   \* number of runs of executeRequest so far
    calls,         \* the parameters of each call of the transport
    pc,            \* where the one request is
    \* requestFactory (the request the hook issued)
    response,      \* what the transport resolved with
    body,          \* what response.json() resolved with
    caught,        \* what the catch block caught, and where it came from
    outcome,       \* the Result the adapter's promise resolved with
    escaped,       \* the adapter's promise rejected
    log,           \* console.error lines
    branches,      \* the branch calls made by match in executeRequest
    gateThrew,     \* executeRequest's promise rejected
    \* Result exercised on its own
    rCtor,         \* the factory that built rRes
    rFn,           \* its argument (for runCatching: what fn does)
    rRes,          \* the Result built
    fnCalls,       \* how often runCatching called fn
    propagated,    \* runCatching let the fault through
    rOp,           \* the operation applied to rRes
    rCalls,        \* the branch calls match made
    rRet,          \* what match returned
    rUnwrapped     \* what unwrap returned

gateVars ==
    <<args, result, returned, slotHist, hasExecuted, activations, calls, pc,
      response, body, caught, outcome, escaped, log, branches, gateThrew>>

resultVars ==
    <<rCtor, rFn, rRes, fnCalls, propagated, rOp, rCalls, rRet, rUnwrapped>>

vars == <<gateVars, resultVars>>

\* Placeholders for "not there yet".
NoResult == Result(Undefined, Undefined)
NoCatch == [src |-> "none", v |-> Undefined]
NoCall == Call("none", Undefined)
NoUnwrap == [data |-> Undefined, error |-> Undefined, isPending |-> FALSE]

Args == {Undefined, Obj(1)}

GateInit ==
    /\ args \in Args
    /\ result = pending
    /\ returned = pending
    /\ slotHist = <<pending>>
    /\ hasExecuted = FALSE
    /\ activations = 0
    /\ calls = <<>>
    /\ pc = "idle"
    /\ response = NoResponse
    /\ body = NullBody
    /\ caught = NoCatch
    /\ outcome = NoResult
    /\ escaped = FALSE
    /\ log = <<>>
    /\ branches = <<>>
    /\ gateThrew = FALSE

ResultInit ==
    /\ rCtor = "none"
    /\ rFn = Fn(FALSE, Undefined)
    /\ rRes = NoResult
    /\ fnCalls = 0
    /\ propagated = FALSE
    /\ rOp = "none"
    /\ rCalls = <<>>
    /\ rRet = NoCall
    /\ rUnwrapped = NoUnwrap

Init == GateInit /\ ResultInit

\* ------------------------------------------------------ useRequestFactory
\* Variant of shouldSkip without the test of the flag.
shouldSkipNever(flag) == FALSE

\* if (hasExecuted.current) return;
shouldSkip(flag) == flag

\* Variant of flagAfterStart that never sets the flag.
flagLeftClear(flag) == flag

\* hasExecuted.current = true;
flagAfterStart(flag) == TRUE

\* The adapter's promise settles with completion c of its try/catch: it
\* resolves with the Result, or rejects with what escaped.
Settle(c, src, x) ==
    /\ outcome' = IF c.t = "return" THEN c.v ELSE NoResult
    /\ escaped' = (c.t = "throw")
    /\ caught' = [src |-> src, v |-> x]
    /\ log' = log \o c.log
    /\ pc' = IF c.t = "return" THEN "adapterDone" ELSE "failed"

\* One run of executeRequest, up to the first suspension.  The transport is
\* called inside the adapter's try block: it returns a promise, or throws.
Activate ==
    /\ activations < MaxActivations
    /\ activations' = activations + 1
    /\ UNCHANGED <<args, result, returned, slotHist, branches, gateThrew>>
    /\ UNCHANGED resultVars
    /\ IF shouldSkip(hasExecuted)
       THEN UNCHANGED <<hasExecuted, calls, pc, response, body, caught,
                        outcome, escaped, log>>
       ELSE /\ hasExecuted' = flagAfterStart(hasExecuted)
            /\ calls' = Append(calls, args)
            /\ \E t \in {Fn(FALSE, Undefined)} \cup {Fn(TRUE, x) : x \in Faults} :
                 IF t.throws
                 THEN /\ Settle(tryCatch(Throw(t.val, <<>>)), "transport-throw", t.val)
                      /\ UNCHANGED <<response, body>>
                 ELSE /\ pc' = "awaitTransport"
                      /\ response' = NoResponse
                      /\ body' = NullBody
                      /\ caught' = NoCatch
                      /\ outcome' = NoResult
                      /\ UNCHANGED <<escaped, log>>

\* The transport's promise resolves with a response; the adapter goes on to
\* await response.json() on either branch.
TransportResolve ==
    /\ pc = "awaitTransport"
    /\ \E r \in Responses : response' = r
    /\ pc' = "awaitJson"
    /\ UNCHANGED <<args, result, returned, slotHist, hasExecuted, activations,
                   calls, body, caught, outcome, escaped, log, branches,
                   gateThrew>>
    /\ UNCHANGED resultVars

\* The transport's promise rejects.
TransportReject ==
    /\ pc = "awaitTransport"
    /\ \E x \in Faults :
         Settle(tryCatch(Throw(x, <<>>)), "transport-reject", x)
    /\ UNCHANGED <<args, result, returned, slotHist, hasExecuted, activations,
                   calls, response, body, branches, gateThrew>>
    /\ UNCHANGED resultVars

\* response.json() resolves: the rest of the try block runs.
JsonResolve ==
    /\ pc = "awaitJson"
    /\ \E b \in Bodies :
         LET c == afterJson(response, b) IN
         /\ body' = b
         /\ Settle(tryCatch(c),
                   IF c.t = "return" THEN "none"
                   ELSE IF b.nul THEN "destructure" ELSE "status",
                   IF c.t = "return" THEN Undefined ELSE c.v)
    /\ UNCHANGED <<args, result, returned, slotHist, hasExecuted, activations,
                   calls, response, branches, gateThrew>>
    /\ UNCHANGED resultVars

\* response.json() rejects (the body is not JSON, the stream fails).
JsonReject ==
    /\ pc = "awaitJson"
    /\ \E x \in Faults :
         Settle(tryCatch(Throw(x, <<>>)), "json-reject", x)
    /\ UNCHANGED <<args, result, returned, slotHist, hasExecuted, activations,
                   calls, response, body, branches, gateThrew>>
    /\ UNCHANGED resultVars

\* Variant of handler with succeed and failed exchanged.
handlerSwapped(c) ==
    IF c.branch = "onSuccess" THEN [set |-> TRUE, res |-> failed(c.arg)]
    ELSE IF c.branch = "onError" THEN [set |-> TRUE, res |-> succeed(c.arg)]
    ELSE [set |-> FALSE, res |-> NoResult]

\* The handlers executeRequest passes to match: what a branch call does to
\* the slot.
handler(c) ==
    IF c.branch = "onSuccess" THEN [set |-> TRUE, res |-> succeed(c.arg)]
    ELSE IF c.branch = "onError" THEN [set |-> TRUE, res |-> failed(c.arg)]
    ELSE [set |-> FALSE, res |-> NoResult]

\* The continuation of executeRequest after await req(args): match runs the
\* handlers, which call setResult or throw.
Publish ==
    /\ pc = "adapterDone"
    /\ LET cs == match(outcome, TRUE)
           h == handler(cs[1])
       IN /\ branches' = branches \o cs
          /\ result' = IF h.set THEN h.res ELSE result
          /\ slotHist' = IF h.set THEN Append(slotHist, h.res) ELSE slotHist
          /\ gateThrew' = ~h.set
          /\ pc' = IF h.set THEN "published" ELSE "failed"
    /\ UNCHANGED <<args, returned, hasExecuted, activations, calls, response,
                   body, caught, outcome, escaped, log>>
    /\ UNCHANGED resultVars

\* The component renders again after setResult: the hook returns the slot.
Render ==
    /\ returned # result
    /\ returned' = result
    /\ UNCHANGED <<args, result, slotHist, hasExecuted, activations, calls, pc,
                   response, body, caught, outcome, escaped, log, branches,
                   gateThrew>>
    /\ UNCHANGED resultVars

Next ==
    \/ Activate
    \/ TransportResolve
    \/ TransportReject
    \/ JsonResolve
    \/ JsonReject
    \/ Publish
    \/ Render

Spec == Init /\ [][Next]_vars

\* Promise continuations are run by the event loop once their promise has
\* settled, and a state change is followed by a render; a request in flight
\* runs to completion or rejection.
FairSpec ==
    /\ Spec
    /\ WF_vars(JsonResolve \/ JsonReject)
    /\ WF_vars(Publish)
    /\ WF_vars(Render)

\* ------------------------------------------------- Result, on its own
Built(ctor, fn, r) ==
    /\ rCtor = "none"
    /\ rCtor' = ctor
    /\ rFn' = fn
    /\ rRes' = r
    /\ UNCHANGED <<propagated, rOp, rCalls, rRet, rUnwrapped>>
    /\ UNCHANGED gateVars

\* Result.succeed(v)
SucceedOp ==
    \E v \in Values :
        /\ Built("succeed", Fn(FALSE, v), succeed(v))
        /\ UNCHANGED fnCalls

\* Result.failed(e)
FailedOp ==
    \E e \in Values :
        /\ Built("failed", Fn(FALSE, e), failed(e))
        /\ UNCHANGED fnCalls

\* Result.runCatching(fn): fn is called once, inside the try block.
RunCatchingOp ==
    \E t \in BOOLEAN, v \in Values :
        /\ Built("runCatching", Fn(t, v), runCatching(Fn(t, v)))
        /\ fnCalls' = fnCalls + 1

\* Result.pending()
PendingOp ==
    /\ Built("pending", Fn(FALSE, Undefined), pending)
    /\ UNCHANGED fnCalls

\* rRes.match(onSuccess, onError) and rRes.match(onSuccess, onError, onPending)
MatchOp ==
    /\ rCtor # "none"
    /\ rOp = "none"
    /\ \E hasOnPending \in BOOLEAN :
         LET cs == match(rRes, hasOnPending) IN
         /\ rOp' = IF hasOnPending THEN "match3" ELSE "match2"
         /\ rCalls' = cs
         /\ rRet' = cs[Len(cs)]
    /\ UNCHANGED <<rCtor, rFn, rRes, fnCalls, propagated, rUnwrapped>>
    /\ UNCHANGED gateVars

\* rRes.unwrap()
UnwrapOp ==
    /\ rCtor # "none"
    /\ rOp = "none"
    /\ rOp' = "unwrap"
    /\ rUnwrapped' = unwrap(rRes)
    /\ UNCHANGED <<rCtor, rFn, rRes, fnCalls, propagated, rCalls, rRet>>
    /\ UNCHANGED gateVars

NextResult ==
    \/ SucceedOp
    \/ FailedOp
    \/ RunCatchingOp
    \/ PendingOp
    \/ MatchOp
    \/ UnwrapOp

SpecResult == Init /\ [][NextResult]_vars

\* ------------------------------------------------------------------ claims
AdapterSettled == pc \in {"adapterDone", "published"}

ExactlyOne(a, b, c) ==
    \/ a /\ ~b /\ ~c
    \/ ~a /\ b /\ ~c
    \/ ~a /\ ~b /\ c

\* C1: the function requestFactory returns never rejects, and when the
\* transport throws, the transport rejects or response.json() fails, it
\* resolves to a Failure (isError true, isSuccess false) whose error is the
\* caught fault.
C1_FaultBecomesFailure ==
    /\ ~escaped
    /\ (AdapterSettled /\ caught.src \in
            {"transport-throw", "transport-reject", "json-reject", "destructure"})
       => /\ isError(outcome)
          /\ ~isSuccess(outcome)
          /\ error(outcome) = caught.v

\* C2: a response that is not ok and whose body decodes to a mapping with
\* message m gives a Failure classified by status: 404 a NotFoundError and
\* 402 a PaymentRequiredError, each carrying m as its message when m is a
\* string, and every other status the Error "Response's not okay", which
\* does not depend on m; that fallback is produced by no 404 and no 402.
C2_StatusClassification ==
    (AdapterSettled /\ response \in Responses /\ ~response.ok /\ ~body.nul)
    => LET e == error(outcome)
           m == body.message
       IN /\ isError(outcome) /\ ~isSuccess(outcome) /\ data(outcome) = Null
          /\ e.kind = "error"
          /\ response.status = 404 =>
                /\ e.cls = "NotFoundError"
                /\ m.kind = "string" => e.v = m.v
          /\ response.status = 402 =>
                /\ e.cls = "PaymentRequiredError"
                /\ m.kind = "string" => e.v = m.v
          /\ response.status \notin {404, 402} => e = Err("Error", NotOkayText)
          /\ e = Err("Error", NotOkayText) => response.status \notin {404, 402}

C2_Witness ==
    /\ pc = "adapterDone"
    /\ ~response.ok /\ response.status = 402
    /\ body.message = Str("pay")
    /\ outcome = failed(Err("PaymentRequiredError", "pay"))

\* C3: a response that is ok and whose body decodes to a mapping with
\* data = d gives a Success (isSuccess true, isError false) whose data is d,
\* for every d and every status code.
C3_OkGivesSuccess ==
    (AdapterSettled /\ response \in Responses /\ response.ok /\ ~body.nul)
    => /\ isSuccess(outcome)
       /\ ~isError(outcome)
       /\ data(outcome) = body.data
       /\ caught.src = "none"

C3_Witness ==
    /\ pc = "adapterDone"
    /\ response.ok /\ response.status = 500
    /\ body.data = Obj(1) /\ body.message = Str("missing")
    /\ data(outcome) = Obj(1) /\ isSuccess(outcome)

\* C4: within one subscription the transport is called exactly once, with
\* the hook's args, however many times executeRequest runs and however the
\* runs interleave with the request; a run that finds hasExecuted true calls
\* nothing and leaves the slot alone.
C4_SingleFire ==
    /\ [](activations = 0 => calls = <<>>)
    /\ [](activations >= 1 => calls = <<args>>)
    /\ [][(hasExecuted /\ activations' # activations)
            => UNCHANGED <<calls, result, slotHist, pc, response, body,
                           outcome, hasExecuted>>]_vars

C4_Witness ==
    /\ activations >= 2
    /\ pc = "published"
    /\ Len(calls) = 1

\* C5: the subscription moves NotStarted -> Started(Pending) ->
\* Started(Terminal) only: the slot is pending from the start until the
\* request's outcome is published, pending is what is seen first, the flag
\* never goes back to false, and a terminal slot is never replaced.
C5_Lifecycle ==
    /\ [](/\ slotHist[1] = pending
          /\ Len(slotHist) <= 2
          /\ result = slotHist[Len(slotHist)]
          /\ Len(slotHist) = 2 => ~isPending(slotHist[2]))
    /\ [](~hasExecuted => pc = "idle")
    /\ [](pc # "published" => result = pending /\ returned = pending)
    /\ [](pc = "published" => hasExecuted /\ ~isPending(result))
    /\ [][hasExecuted => hasExecuted']_vars
    /\ [][~isPending(result) => result' = result]_vars
    /\ [][~isPending(returned) => returned' = returned]_vars

C5_Witness ==
    /\ pc = "published"
    /\ activations >= 2
    /\ slotHist = <<pending, result>>
    /\ returned = result
    /\ ~isPending(result)

\* C6: once the transport has settled, the slot eventually holds a terminal
\* outcome and is not left pending; the published outcome agrees with the
\* adapter's (a Success with the same data when the adapter's outcome is a
\* Success, a Failure with the same error when it is a Failure), and match
\* never takes the pending branch.
C6_Publication ==
    /\ [](pc = "published" =>
            /\ ~isPending(result)
            /\ isSuccess(outcome) =>
                 isSuccess(result) /\ ~isError(result)
                 /\ data(result) = data(outcome)
            /\ isError(outcome) =>
                 isError(result) /\ ~isSuccess(result)
                 /\ error(result) = error(outcome)
            /\ result = outcome)
    /\ [](/\ ~gateThrew
          /\ pc # "failed"
          /\ \A i \in 1..Len(branches) : branches[i].branch # "onPending")
    /\ (pc \in {"awaitJson", "adapterDone"})
          ~> (pc = "published" /\ ~isPending(result))

C6_Witness ==
    /\ pc = "published"
    /\ caught = [src |-> "transport-reject", v |-> Err("Error", "net")]
    /\ result = failed(Err("Error", "net"))
    /\ branches = <<Call("onError", Err("Error", "net"))>>

\* C7: every Outcome built by succeed, failed, pending or runCatching is in
\* exactly one of the states Pending, Success, Failure, never exposes both a
\* data and an error, is never a Success holding null nor a Failure holding
\* null, and failed(e) has isError true and error e for every e.
C7_TriState ==
    rCtor # "none" =>
        /\ ExactlyOne(isPending(rRes), isSuccess(rRes), isError(rRes))
        /\ ~(data(rRes) # Null /\ error(rRes) # Null)
        /\ (isSuccess(rRes) /\ ~isPending(rRes)) => data(rRes) # Null
        /\ isError(rRes) => error(rRes) # Null
        /\ rCtor = "failed" => isError(rRes) /\ error(rRes) = rFn.val

\* C8: match calls exactly one branch, once, and returns what it returned:
\* onSuccess with the data of a Success, onError with the error of a
\* Failure, onPending for a Pending (onError with null when no pending
\* branch is given).
C8_MatchOneBranch ==
    rOp \in {"match2", "match3"} =>
        /\ Len(rCalls) = 1
        /\ rRet = rCalls[1]
        /\ isPending(rRes) =>
             rCalls[1] = IF rOp = "match3" THEN Call("onPending", Undefined)
                         ELSE Call("onError", Null)
        /\ (~isPending(rRes) /\ isSuccess(rRes)) =>
             rCalls[1] = Call("onSuccess", data(rRes))
        /\ (~isPending(rRes) /\ isError(rRes)) =>
             rCalls[1] = Call("onError", error(rRes))
        /\ (rCtor = "succeed" \/ (rCtor = "runCatching" /\ ~rFn.throws)) =>
             rCalls[1] = Call("onSuccess", rFn.val)

C8_Witness ==
    /\ rOp = "match2"
    /\ rCtor = "failed"
    /\ rFn.val = Str("boom")
    /\ rCalls = <<Call("onError", Str("boom"))>>

\* C9: unwrap returns {data, error, isPending} in which exactly one of
\* "data is not null", "error is not null", "isPending" holds; data and
\* error are both null only for a Pending; and the data or error is the
\* value the Outcome was built with.
C9_UnwrapTriple ==
    rOp = "unwrap" =>
        /\ ExactlyOne(rUnwrapped.data # Null, rUnwrapped.error # Null,
                      rUnwrapped.isPending)
        /\ (rUnwrapped.data = Null /\ rUnwrapped.error = Null)
             => rCtor = "pending"
        /\ (rCtor = "succeed" \/ (rCtor = "runCatching" /\ ~rFn.throws))
             => rUnwrapped.data = rFn.val
        /\ (rCtor = "failed" \/ (rCtor = "runCatching" /\ rFn.throws))
             => rUnwrapped.error = rFn.val

\* C10: runCatching(fn) calls fn once and lets no fault through: it gives
\* succeed(r), a Success with data r, when fn returns r, and failed(X), a
\* Failure with isError true and error X, when fn throws X, for every r, X.
C10_RunCatching ==
    rCtor = "runCatching" =>
        /\ fnCalls = 1
        /\ ~propagated
        /\ ~rFn.throws =>
             /\ rRes = succeed(rFn.val)
             /\ isSuccess(rRes) /\ ~isError(rRes)
             /\ data(rRes) = rFn.val
        /\ rFn.throws =>
             /\ rRes = failed(rFn.val)
             /\ isError(rRes) /\ ~isSuccess(rRes)
             /\ error(rRes) = rFn.val

====
